---- MODULE Spec2Model ----
(***************************************************************************)
(* Model of the Zarcaro APC payment gateway (src/app.py): the Flask        *)
(* handlers built by create_app, the Firestore documents they read and     *)
(* write, and the checkout sessions they create at the payment processor.  *)
(*                                                                         *)
(* Every handler makes at most one call that changes the document store,   *)
(* so one handler is one atomic action: every interleaving of concurrent   *)
(* requests is equivalent to a sequence of these actions.  Each action      *)
(* records the request it served, the response it produced and the         *)
(* external calls it made, in order, in the variable last.                 *)
(***************************************************************************)
EXTENDS Integers, Sequences, FiniteSets, TLC

\* ----- bound of the model -----
MaxRecords == 2     \* documents and sessions created, over all collections

\* ----- values -----
Users == {"u1", "u2"}
Unknown == "unknown"          \* the sentinel bucket of stripe_webhook
NoUser == "none"              \* an absent uid / client_reference_id
Buckets == Users \cup {Unknown}
Completed == "checkout.session.completed"
OtherKind == "payment_intent.succeeded"
EventKinds == {Completed, OtherKind}

VARIABLES
    cfg,               \* what create_app found: are the SDKs importable
    txs,               \* users/{uid}/transactions: bucket -> set of documents
    userDocs,          \* users/{uid}: uid -> document
    contact_messages,  \* the contact_messages collection
    sessions,          \* checkout sessions the processor holds for the gateway
    now,               \* the store's server clock (SERVER_TIMESTAMP)
    last               \* request served last, its response and its calls

vars == <<cfg, txs, userDocs, contact_messages, sessions, now, last>>

store == <<txs, userDocs, contact_messages>>

RECURSIVE SumOver(_, _)
SumOver(f, D) ==
    IF D = {} THEN 0
    ELSE LET d == CHOOSE x \in D : TRUE IN Cardinality(f[d]) + SumOver(f, D \ {d})

TxCount == SumOver(txs, Buckets)

\* Everything created so far: transactions, sessions, contact messages and
\* stored bank-link tokens.
Records ==
    TxCount + Cardinality(sessions) + Len(contact_messages)
    + Cardinality({u \in Users : userDocs[u].plaidAccessToken})

\* ----- configuration (create_app) -----
\* The SDK imports stand or fall together: one try block imports them all.
stripe_present == cfg.sdk
plaid_client_present == cfg.sdk
db_present == cfg.sdk

\* ----- requests and responses -----
AuthHeaders == {"absent", "basic", "bearer_bad"} \cup {"bearer_" \o u : u \in Users}

NoAmount == [kind |-> "absent", v |-> 0]

\* JSON values of "amount": none given, null, integers, and 2.5 (floats are
\* in tenths).
AmountInputs ==
    {NoAmount, [kind |-> "null", v |-> 0], [kind |-> "float", v |-> 25]}
    \cup {[kind |-> "int", v |-> n] : n \in {-1, 0, 2}}

\* Bodies of POST /create-checkout-session: every amount with both redirect
\* URLs, and a good amount with a URL missing.
CheckoutBodies ==
    {[amount |-> a, urls |-> TRUE] : a \in AmountInputs}
    \cup {[amount |-> [kind |-> "int", v |-> 2], urls |-> FALSE]}

NoObject == [payment_intent |-> 0, client_reference_id |-> NoUser, amount_total |-> 0]

NoRequest ==
    [auth |-> "absent", amount |-> NoAmount, urls |-> FALSE,
     public_token |-> FALSE, fields |-> {}, smtp |-> FALSE,
     secret |-> FALSE, sig |-> "absent", wellformed |-> FALSE,
     kind |-> OtherKind, object |-> NoObject]

Response(op, req, status, body, effects) ==
    [op |-> op, req |-> req, status |-> status, body |-> body,
     unhandled |-> FALSE, effects |-> effects, uid |-> NoUser,
     fault |-> "none", notify |-> "none", result |-> <<>>]

\* An exception no except clause of the handler catches: the handler returns
\* nothing and the framework answers 500.
Unhandled(op, req, effects, fault) ==
    [Response(op, req, 500, "none", effects) EXCEPT
        !.unhandled = TRUE, !.fault = fault]

\* ----- _verify_firebase_id_token -----
\* The outcome of the helper: the uid, or an exception; idp says whether
\* auth.verify_id_token was reached.
VerifyFirebaseIdToken(auth, idpUp) ==
    IF auth \in {"absent", "basic"}
    THEN [ok |-> FALSE, uid |-> NoUser, idp |-> FALSE]
    ELSE IF auth = "bearer_bad" \/ ~idpUp
    THEN [ok |-> FALSE, uid |-> NoUser, idp |-> TRUE]
    ELSE [ok |-> TRUE, idp |-> TRUE,
          uid |-> CHOOSE u \in Users : auth = "bearer_" \o u]

IdpCall(v) == IF v.idp THEN <<"idp">> ELSE <<>>

\* ----- int(data.get("amount", 0)) -----
\* Python's int(): an integer is kept, a float is truncated toward zero,
\* None and non-numeric text raise.  A float is given in tenths.
PyInt(a) ==
    CASE a.kind = "absent" -> [raised |-> FALSE, v |-> 0]
      [] a.kind = "int"    -> [raised |-> FALSE, v |-> a.v]
      [] a.kind = "float"  -> [raised |-> FALSE,
                               v |-> IF a.v >= 0 THEN a.v \div 10
                                     ELSE 0 - ((0 - a.v) \div 10)]
      [] OTHER             -> [raised |-> TRUE, v |-> 0]

\* not all([amount, success_url, cancel_url])
CheckoutInputMissing(amount, urls) == amount = 0 \/ ~urls

Init ==
    /\ cfg \in [sdk : BOOLEAN]
    /\ txs = [b \in Buckets |-> {}]
    /\ userDocs = [u \in Users |->
                      [exists |-> u = "u1", email |-> u = "u1",
                       plaidAccessToken |-> FALSE]]
    /\ contact_messages = <<>>
    /\ sessions = {}
    /\ now = 0
    /\ last = Response("start", NoRequest, 0, "none", <<>>)

\* ----- GET /health -----
health ==
    /\ last' = Response("health", NoRequest, 200, "status_ok", <<>>)
    /\ UNCHANGED <<cfg, txs, userDocs, contact_messages, sessions, now>>

\* ----- POST /create-checkout-session -----
\* The session the code asks the processor for.  Session.create is called
\* without client_reference_id, so the processor's session carries none.
CheckoutSession(uid, amount, email) ==
    [payment_intent |-> Cardinality(sessions) + 1,
     client_reference_id |-> NoUser,
     amount_total |-> amount,
     customer_email |-> email,
     owner |-> uid]

create_checkout_session ==
    \E auth \in AuthHeaders, body \in CheckoutBodies,
       fault \in {"none", "idp", "db", "stripe"} :
      LET req == [NoRequest EXCEPT !.auth = auth, !.amount = body.amount,
                                   !.urls = body.urls]
          amount == PyInt(body.amount)
          v == VerifyFirebaseIdToken(auth, fault # "idp")
          doc == userDocs[v.uid]
          email == doc.exists /\ doc.email
          afterDb == IdpCall(v) \o (IF db_present THEN <<"db_read">> ELSE <<>>)
          reached == stripe_present /\ ~amount.raised
                     /\ ~CheckoutInputMissing(amount.v, body.urls)
      IN
      \* a call that is not reached cannot fail
      /\ fault # "none" => reached /\ v.idp /\ (fault = "db" => db_present)
      /\ UNCHANGED <<cfg, txs, userDocs, contact_messages, now>>
      /\ IF ~stripe_present
         THEN /\ last' = Response("checkout", req, 500, "error", <<>>)
              /\ UNCHANGED sessions
         ELSE IF amount.raised
         THEN /\ last' = Unhandled("checkout", req, <<>>, "int")
              /\ UNCHANGED sessions
         ELSE IF CheckoutInputMissing(amount.v, body.urls)
         THEN /\ last' = Response("checkout", req, 400, "error", <<>>)
              /\ UNCHANGED sessions
         ELSE IF ~v.ok
         THEN /\ last' = [Response("checkout", req, 400, "error", IdpCall(v))
                             EXCEPT !.fault = "auth"]
              /\ UNCHANGED sessions
         ELSE IF db_present /\ fault = "db"
         THEN /\ last' = [Response("checkout", req, 400, "error", afterDb)
                             EXCEPT !.uid = v.uid, !.fault = "db"]
              /\ UNCHANGED sessions
         ELSE IF fault = "stripe"
         THEN /\ last' = [Response("checkout", req, 400, "error",
                                   afterDb \o <<"stripe">>)
                             EXCEPT !.uid = v.uid, !.fault = "stripe"]
              /\ UNCHANGED sessions
         ELSE /\ Records < MaxRecords
              /\ sessions' = sessions \cup {CheckoutSession(v.uid, amount.v, email)}
              /\ last' = [Response("checkout", req, 200, "url",
                                   afterDb \o <<"stripe">>)
                             EXCEPT !.uid = v.uid]

\* ----- POST /stripe/webhook -----
Signatures == {"absent", "bad", "good"}

\* What the processor sends of a session: the session without the model's
\* note of who created it.
SessionObject(s) ==
    [payment_intent |-> s.payment_intent,
     client_reference_id |-> s.client_reference_id,
     amount_total |-> s.amount_total]

\* Sessions of the same processor account made outside the gateway, which
\* carry a client_reference_id.
ForeignSessions ==
    {[payment_intent |-> 100, client_reference_id |-> "u1", amount_total |-> 2],
     [payment_intent |-> 200, client_reference_id |-> "u2", amount_total |-> 2]}

EventObjects == {SessionObject(s) : s \in sessions} \cup ForeignSessions

\* A verification that parses the payload and never looks at the signature.
ConstructEventUnverified(secret, sig, wellformed) == wellformed

\* stripe.Webhook.construct_event / stripe.Event.construct_from: TRUE when an
\* event comes back, FALSE when the call raises.
ConstructEvent(secret, sig, wellformed) ==
    IF secret THEN sig = "good" /\ wellformed ELSE wellformed

\* A dispatch that takes every event kind for a completed session.
IsCompletedAnyKind(kind) == kind \in EventKinds

\* event["type"] == "checkout.session.completed"
IsCompleted(kind) == kind = Completed

\* uid = session.get("client_reference_id"); if not uid: uid = "unknown"
AttributedUser(object) ==
    IF object.client_reference_id = NoUser THEN Unknown
    ELSE object.client_reference_id

NewTransaction(object, ts, id) ==
    [id |-> id,
     amount |-> object.amount_total,
     currency |-> "usd",
     payment_intent |-> object.payment_intent,
     status |-> "paid",
     timestamp |-> ts]

\* A write that replaces the collection's content instead of adding to it.
OverwriteDocument(collection, doc) == {doc}

\* collection.add(document)
AddDocument(collection, doc) == collection \cup {doc}

stripe_webhook ==
    \E secret \in BOOLEAN, sig \in Signatures, wellformed \in BOOLEAN,
       kind \in EventKinds, object \in EventObjects \cup {NoObject},
       dbUp \in BOOLEAN, dt \in 0..1 :
      LET req == [NoRequest EXCEPT !.secret = secret, !.sig = sig,
                                   !.wellformed = wellformed, !.kind = kind,
                                   !.object = object]
          uid == AttributedUser(object)
      IN
      \* the signature header is read only when a secret is set; the event of
      \* a malformed payload is never read; only a completed event is a session
      /\ secret \/ sig = "absent"
      /\ wellformed \/ (kind = OtherKind /\ object = NoObject)
      /\ (kind = Completed) <=> (object # NoObject)
      \* the store is reached, and its clock read, only by a completed event
      /\ (~dbUp \/ dt = 1) =>
            /\ stripe_present /\ db_present
            /\ ConstructEvent(secret, sig, wellformed) /\ IsCompleted(kind)
      /\ ~dbUp => dt = 1
      /\ UNCHANGED <<cfg, userDocs, contact_messages, sessions>>
      /\ IF ~stripe_present \/ ~db_present
         THEN /\ last' = Response("webhook", req, 500, "empty", <<>>)
              /\ UNCHANGED <<txs, now>>
         ELSE IF ~ConstructEvent(secret, sig, wellformed)
         THEN /\ last' = Response("webhook", req, 400, "empty", <<>>)
              /\ UNCHANGED <<txs, now>>
         ELSE IF ~IsCompleted(kind)
         THEN /\ last' = Response("webhook", req, 200, "empty", <<>>)
              /\ UNCHANGED <<txs, now>>
         ELSE IF ~dbUp
         THEN /\ last' = [Unhandled("webhook", req, <<"db_write">>, "db")
                             EXCEPT !.uid = uid]
              /\ UNCHANGED <<txs, now>>
         ELSE /\ Records < MaxRecords
              /\ now' = now + dt
              /\ txs' = [txs EXCEPT ![uid] =
                            AddDocument(@, NewTransaction(object, now', TxCount + 1))]
              /\ last' = [Response("webhook", req, 200, "empty", <<"db_write">>)
                             EXCEPT !.uid = uid]

\* ----- POST /plaid/create_link_token -----
plaid_create_link_token ==
    \E auth \in AuthHeaders, fault \in {"none", "idp", "plaid"} :
      LET req == [NoRequest EXCEPT !.auth = auth]
          v == VerifyFirebaseIdToken(auth, fault # "idp")
      IN
      /\ fault # "none" => plaid_client_present /\ v.idp
      /\ UNCHANGED <<cfg, txs, userDocs, contact_messages, sessions, now>>
      /\ last' =
           IF ~plaid_client_present
           THEN Response("link_token", req, 500, "error", <<>>)
           ELSE IF ~v.ok
           THEN [Response("link_token", req, 401, "error", IdpCall(v))
                    EXCEPT !.fault = "auth"]
           ELSE IF fault = "plaid"
           THEN [Response("link_token", req, 400, "error", <<"idp", "plaid">>)
                    EXCEPT !.uid = v.uid, !.fault = "plaid"]
           ELSE [Response("link_token", req, 200, "token", <<"idp", "plaid">>)
                    EXCEPT !.uid = v.uid]

\* ----- POST /plaid/exchange_public_token -----
\* document.set({"plaidAccessToken": access_token}, merge=True)
SetPlaidAccessToken(doc) ==
    [doc EXCEPT !.exists = TRUE, !.plaidAccessToken = TRUE]

plaid_exchange_public_token ==
    \E auth \in AuthHeaders, public_token \in BOOLEAN,
       fault \in {"none", "idp", "plaid", "db"} :
      LET req == [NoRequest EXCEPT !.auth = auth, !.public_token = public_token]
          v == VerifyFirebaseIdToken(auth, fault # "idp")
      IN
      /\ fault # "none" =>
            plaid_client_present /\ db_present /\ public_token /\ v.idp
      /\ UNCHANGED <<cfg, txs, contact_messages, sessions, now>>
      /\ IF ~plaid_client_present \/ ~db_present
         THEN /\ last' = Response("exchange", req, 500, "error", <<>>)
              /\ UNCHANGED userDocs
         ELSE IF ~public_token
         THEN /\ last' = Response("exchange", req, 400, "error", <<>>)
              /\ UNCHANGED userDocs
         ELSE IF ~v.ok
         THEN /\ last' = [Response("exchange", req, 401, "error", IdpCall(v))
                             EXCEPT !.fault = "auth"]
              /\ UNCHANGED userDocs
         ELSE IF fault = "plaid"
         THEN /\ last' = [Response("exchange", req, 400, "error", <<"idp", "plaid">>)
                             EXCEPT !.uid = v.uid, !.fault = "plaid"]
              /\ UNCHANGED userDocs
         ELSE IF fault = "db"
         THEN /\ last' = [Response("exchange", req, 400, "error",
                                   <<"idp", "plaid", "db_write">>)
                             EXCEPT !.uid = v.uid, !.fault = "db"]
              /\ UNCHANGED userDocs
         ELSE /\ userDocs[v.uid].plaidAccessToken \/ Records < MaxRecords
              /\ userDocs' = [userDocs EXCEPT ![v.uid] = SetPlaidAccessToken(@)]
              /\ last' = [Response("exchange", req, 200, "message",
                                   <<"idp", "plaid", "db_write">>)
                             EXCEPT !.uid = v.uid]

\* ----- POST /contact -----
ContactFields == {"name", "email", "message"}

\* Bodies of POST /contact: all three fields, or one of them missing.
ContactBodies == {ContactFields} \cup {ContactFields \ {f} : f \in ContactFields}

\* not all([name, email, message])
ContactInputMissing(fields) == fields # ContactFields

\* What the SMTP block does: nothing when it is not configured; otherwise one
\* attempt, whose exception is printed and dropped.
NotifyOutcomes == {"sent", "unreachable", "failed_mid_send"}

\* A handler that lets a failed notification fail the request.
ContactStatusOfNotify(notify) ==
    IF notify \in {"unreachable", "failed_mid_send"} THEN 500 ELSE 200

\* The status of the response once the message is stored, whatever the SMTP
\* block did.
ContactStatus(notify) == 200

submit_contact_form ==
    \E fields \in ContactBodies, smtp \in BOOLEAN, outcome \in NotifyOutcomes,
       dbUp \in BOOLEAN :
      LET req == [NoRequest EXCEPT !.fields = fields, !.smtp = smtp]
          notify == IF smtp THEN outcome ELSE "not_configured"
          persisted == IF db_present THEN <<"db_write">> ELSE <<>>
          notified == IF smtp THEN <<"smtp">> ELSE <<>>
      IN
      /\ smtp \/ outcome = "sent"
      /\ ~dbUp => db_present /\ ~ContactInputMissing(fields)
      /\ ContactInputMissing(fields) => ~smtp
      /\ UNCHANGED <<cfg, txs, userDocs, sessions, now>>
      /\ IF ContactInputMissing(fields)
         THEN /\ last' = Response("contact", req, 400, "error", <<>>)
              /\ UNCHANGED contact_messages
         ELSE IF db_present /\ ~dbUp
         THEN /\ last' = Unhandled("contact", req, <<"db_write">>, "db")
              /\ UNCHANGED contact_messages
         ELSE /\ db_present => Records < MaxRecords
              /\ contact_messages' =
                    IF db_present
                    THEN Append(contact_messages,
                                [fields |-> fields, timestamp |-> now])
                    ELSE contact_messages
              /\ last' = [Response("contact", req, ContactStatus(notify), "message",
                                   persisted \o notified)
                             EXCEPT !.notify = notify]

\* ----- GET /transactions -----
\* The query ordered the other way, oldest first.
QueryOrderAscending(a, b) == a.timestamp <= b.timestamp

\* order_by("timestamp", direction=DESCENDING): a before b
QueryOrder(a, b) == a.timestamp >= b.timestamp

\* The orders in which the query may stream the collection: documents with
\* equal timestamps come in the order of their generated ids, which is any.
Listings(collection) ==
    {r \in [1..Cardinality(collection) -> collection] :
        /\ \A i, j \in 1..Cardinality(collection) : i # j => r[i] # r[j]
        /\ \A i, j \in 1..Cardinality(collection) : i < j => QueryOrder(r[i], r[j])}

list_transactions ==
    \E auth \in AuthHeaders, fault \in {"none", "idp", "db"} :
      LET req == [NoRequest EXCEPT !.auth = auth]
          v == VerifyFirebaseIdToken(auth, fault # "idp")
      IN
      /\ fault # "none" => db_present /\ v.idp
      /\ UNCHANGED <<cfg, txs, userDocs, contact_messages, sessions, now>>
      /\ IF ~db_present
         THEN last' = Response("list", req, 500, "error", <<>>)
         ELSE IF ~v.ok
         THEN last' = [Response("list", req, 401, "error", IdpCall(v))
                          EXCEPT !.fault = "auth"]
         ELSE IF fault = "db"
         THEN last' = [Unhandled("list", req, <<"idp", "db_read">>, "db")
                          EXCEPT !.uid = v.uid]
         ELSE \E r \in Listings(txs[v.uid]) :
                last' = [Response("list", req, 200, "list", <<"idp", "db_read">>)
                            EXCEPT !.uid = v.uid, !.result = r]

Next ==
    \/ health
    \/ create_checkout_session
    \/ stripe_webhook
    \/ plaid_create_link_token
    \/ plaid_exchange_public_token
    \/ submit_contact_form
    \/ list_transactions

Spec == Init /\ [][Next]_vars

(***************************************************************************)
(* Properties.  last' is the request the step served and its response:     *)
(* every action sets it.                                                   *)
(***************************************************************************)

ProtectedOps == {"checkout", "link_token", "exchange", "list"}

SideEffects == {"db_read", "db_write", "stripe", "plaid", "smtp"}

EffectsOf(r) == {r.effects[i] : i \in 1..Len(r.effects)}

\* The webhook request got past construct_event.
EventAccepted(r) ==
    /\ r.op = "webhook"
    /\ stripe_present /\ db_present
    /\ ConstructEvent(r.req.secret, r.req.sig, r.req.wellformed)

\* C1: for every user and every processor reference, the user's transaction
\* collection holds at most one Transaction with that reference, whatever
\* completed-session webhooks were delivered.
C1_OneTransactionPerReference ==
    \A u \in Users : \A t1, t2 \in txs[u] :
        t1.payment_intent = t2.payment_intent => t1 = t2

\* C2: a session created by verified user u is tagged with u as its
\* client_reference_id, so the Transaction of its completed-session webhook
\* is stored under users/u/transactions and under no other bucket.
C2_TransactionUnderSessionCreator ==
    \A s \in sessions : \A b \in Buckets : \A t \in txs[b] :
        t.payment_intent = s.payment_intent =>
            s.client_reference_id = s.owner /\ b = s.owner

\* C3: with a webhook secret configured, a webhook request whose signature is
\* missing or wrong, or whose payload is malformed, gets a failure status and
\* an empty body, and the document store is left as it was.
C3_BadSignatureRejected ==
    [][ (/\ last'.op = "webhook"
         /\ last'.req.secret
         /\ ~(last'.req.sig = "good" /\ last'.req.wellformed))
        => (/\ last'.status \in {400, 500}
            /\ last'.body = "empty"
            /\ store' = store) ]_vars

C3_Witness ==
    /\ last.op = "webhook"
    /\ last.req.secret /\ last.req.sig = "bad" /\ last.req.wellformed
    /\ last.req.kind = Completed
    /\ last.status = 400 /\ last.body = "empty"
    /\ TxCount > 0

\* C4: a create-checkout-session request whose amount is zero, negative or
\* not an integer gets 400 with an error body and the processor's
\* session-creation call is not made.  Stated for a gateway whose SDKs are
\* installed and for numeric amounts, where the code's answer is not 500.
C4_BadAmountRejectedBeforeProcessor ==
    (/\ last.op = "checkout"
     /\ stripe_present
     /\ last.req.amount.kind \in {"int", "float"}
     /\ ~(last.req.amount.kind = "int" /\ last.req.amount.v > 0))
    => (/\ last.status = 400
        /\ last.body = "error"
        /\ "stripe" \notin EffectsOf(last))

\* C5: a request to a Bearer-protected operation whose credential is absent,
\* not a Bearer credential or fails verification gets Unauthorized (401), and
\* the request reads and writes no document and calls neither the processor
\* nor the bank-link service.  Stated for the requests that reach the
\* credential check.
C5_UnauthorizedBeforeSideEffects ==
    (last.op \in ProtectedOps /\ last.fault = "auth")
    => (/\ last.status = 401
        /\ EffectsOf(last) \cap SideEffects = {})

\* Lemma (the ordering the handlers do keep): a protected request whose
\* credential was not verified reads and writes no document and calls neither
\* the processor nor the bank-link service, whatever its status.
NoSideEffectBeforeVerification ==
    (last.op \in ProtectedOps /\ last.uid = NoUser)
    => EffectsOf(last) \cap SideEffects = {}

\* C6: list-transactions returns exactly the verified user's Transactions, none
\* of another user, newest timestamp first; and once a Transaction with a
\* later timestamp than all of the user's is appended, the read returns one
\* record more, the new one first.
C6_ListOfUser ==
    (last.op = "list" /\ last.status = 200) =>
        LET r == last.result
            mine == txs[last.uid]
        IN /\ last.req.auth = "bearer_" \o last.uid
           /\ Len(r) = Cardinality(mine)
           /\ {r[i] : i \in 1..Len(r)} = mine
           /\ \A b \in Buckets \ {last.uid} : \A i \in 1..Len(r) : r[i] \notin txs[b]
           /\ \A i, j \in 1..Len(r) : i < j => r[i].timestamp >= r[j].timestamp

C6_LaterAppendedComesFirst ==
    \A u \in Users : \A t \in txs'[u] \ txs[u] :
        (\A o \in txs[u] : t.timestamp > o.timestamp) =>
            \A r \in Listings(txs'[u]) :
                /\ Len(r) = Cardinality(txs[u]) + 1
                /\ r[1] = t

C6_HistoryNewestFirst == [][ C6_ListOfUser' /\ C6_LaterAppendedComesFirst ]_vars

C6_Witness ==
    /\ last.op = "list" /\ last.status = 200
    /\ Len(last.result) = 2
    /\ last.result[1].timestamp > last.result[2].timestamp
    /\ last.result[1].id > last.result[2].id

C8_OnlyCompletedEventsWrite ==
    [][ /\ (EventAccepted(last') /\ last'.req.kind # Completed)
            => (/\ last'.status = 200 /\ last'.body = "empty"
                /\ store' = store)
        /\ (txs' # txs)
            => (last'.op = "webhook" /\ last'.req.kind = Completed) ]_vars

C8_Witness ==
    /\ last.op = "webhook"
    /\ last.req.secret /\ last.req.sig = "good" /\ last.req.wellformed
    /\ last.req.kind = OtherKind
    /\ last.status = 200 /\ last.body = "empty"
    /\ TxCount > 0

\* C9: no handler lets the failure of an external call (identity provider,
\* processor, bank-link service, document store) escape as an unhandled
\* exception.
C9_ExternalFailuresHandled ==
    ~(last.unhandled /\ last.fault \in {"idp", "db", "stripe", "plaid", "smtp"})

\* C10: a Transaction, once created, is neither modified nor removed, and only
\* the webhook handler creates one: every other operation leaves every
\* transaction collection as it was.
C10_TransactionsAppendOnly ==
    [][ /\ \A b \in Buckets : txs[b] \subseteq txs'[b]
        /\ (txs' # txs) => last'.op = "webhook" ]_vars

C10_Witness ==
    /\ last.op = "exchange" /\ last.status = 200
    /\ userDocs[last.uid].plaidAccessToken
    /\ TxCount > 0
====
